---- MODULE Spec2Model ----
(***************************************************************************)
(* Model of the yandex_climate_modules integration: the API client         *)
(* (api.py), the polling coordinator (coordinator.py), the entry setup     *)
(* (__init__.py), the onboarding flow (config_flow.py) and the sensor      *)
(* entities (sensor.py).                                                   *)
(*                                                                         *)
(* Python values are modelled as records of a fixed shape so that TLC can  *)
(* compare them: None is a tag, not a missing field.                       *)
(***************************************************************************)
EXTENDS Integers, Sequences, FiniteSets, TLC

VARIABLES
    device_ids,           \* coordinator.device_ids (entry.data["device_ids"])
    enable_last,          \* entry.options["enable_last_updated"]
    data,                 \* coordinator.data: None or dict id -> payload
    last_update_success,  \* DataUpdateCoordinator.last_update_success
    pc,                   \* "idle" | "fetching": position of the poll cycle
    slots,                \* results of the get_device tasks of the running cycle
    setup,                \* position of async_setup_entry for the config entry
    latest_ids,           \* history: device ids answered in the last successful cycle
    entities,             \* entities handed to async_add_entities
    flow,                 \* the onboarding flow: step shown, errors, requests made
    fn,                   \* pure-function harness: which function is applied
    inp,                  \* pure-function harness: its argument
    out                   \* pure-function harness: its result

vars == <<device_ids, enable_last, data, last_update_success, pc, slots,
          setup, latest_ids, entities, flow, fn, inp, out>>

pollVars == <<device_ids, enable_last, data, last_update_success, pc, slots,
              setup, latest_ids, entities>>
flowVars == <<flow>>
pureVars == <<fn, inp, out>>

-----------------------------------------------------------------------------
(* const.py *)

INST_TEMPERATURE == "temperature"
INST_HUMIDITY == "humidity"
INST_CO2 == "co2_level"
CLIMATE_INSTANCES == {INST_TEMPERATURE, INST_HUMIDITY, INST_CO2}

-----------------------------------------------------------------------------
(* Python values *)

\* None where a string is expected (dict.get of a missing key, JSON null).
NoneStr == "<None>"

\* A JSON scalar found under "value": None, a number, a string that float()
\* parses, a string that float() rejects, or a boolean.  A number is the
\* double nearest to h/100; e is the sign of (double - h/100), which is 0
\* exactly when h/100 is a multiple of 1/4 and so has an exact binary form.
Val(t, h, e) == [t |-> t, h |-> h, e |-> e]
NoneVal == Val("none", 0, 0)
Num(h, e) == Val("num", h, e)
IsDouble(h, e) == (e = 0) <=> (h % 25 = 0)

\* A JSON scalar found under "last_updated": None, a number, a string or a
\* boolean (v is 1 for true and 0 for false).
Lu(t, v) == [t |-> t, v |-> v]
NoneLu == Lu("none", 0)

\* One element of a device's "properties" list.  state is the "state" object
\* (present = FALSE: the key is missing or null); last_updated is the key of
\* the property itself.
Prop(present, instance, value, state_lu, lu) ==
    [state |-> [present |-> present, instance |-> instance, value |-> value,
                last_updated |-> state_lu],
     last_updated |-> lu]

\* A property as the device endpoint reports it.
Reading(instance, value, lu) == Prop(TRUE, instance, value, NoneLu, Lu("num", lu))

\* Result of a call: the value returned, or the exception raised.
Return(v) == [exc |-> "", val |-> v]
Raise(e) == [exc |-> e, val |-> NoneStr]

-----------------------------------------------------------------------------
(* Python strings: sequences of one-character strings *)

Whitespace == {" ", "\t"}

\* str.lower() on the letters the model uses.
LowerChar(c) ==
    CASE c = "B" -> "b"
      [] c = "E" -> "e"
      [] c = "A" -> "a"
      [] c = "R" -> "r"
      [] OTHER -> c

Lower(str) == [i \in DOMAIN str |-> LowerChar(str[i])]

RECURSIVE LStrip(_)
LStrip(str) ==
    IF str # <<>> /\ Head(str) \in Whitespace THEN LStrip(Tail(str)) ELSE str

RECURSIVE RStrip(_)
RStrip(str) ==
    IF str # <<>> /\ str[Len(str)] \in Whitespace
    THEN RStrip(SubSeq(str, 1, Len(str) - 1)) ELSE str

\* str.strip()
Strip(str) == RStrip(LStrip(str))

\* str.startswith(prefix)
StartsWith(str, prefix) ==
    Len(str) >= Len(prefix) /\ SubSeq(str, 1, Len(prefix)) = prefix

\* The first word of a string that does not begin with whitespace.
RECURSIVE FirstWord(_)
FirstWord(str) ==
    IF str = <<>> \/ Head(str) \in Whitespace THEN <<>>
    ELSE <<Head(str)>> \o FirstWord(Tail(str))

\* str.split(None, 1)[1] of a stripped string with whitespace inside: what
\* follows the first word and the run of whitespace after it.
SplitRest(str) == LStrip(SubSeq(str, Len(FirstWord(str)) + 1, Len(str)))

BearerPrefix == <<"b", "e", "a", "r", "e", "r", " ">>

\* token is "" for None.
_normalize_token(token) ==
    LET t == Strip(token) IN
    IF StartsWith(Lower(t), BearerPrefix) THEN Strip(SplitRest(t)) ELSE t

-----------------------------------------------------------------------------
(* api.py: the client *)

\* An HTTP response: the status code, whether the body parses as JSON, and
\* the parsed body.
Resp(status, json, body) == [status |-> status, json |-> json, body |-> body]

\* Body of GET /devices/{id}.  has_id = FALSE: the "id" key is missing.
DeviceBody(status, has_id, id, name, properties) ==
    [status |-> status, has_id |-> has_id, id |-> id, name |-> name,
     properties |-> properties]

\* "properties" absent or null in the body.
NoProps == [present |-> FALSE, list |-> <<>>]
Props(list) == [present |-> TRUE, list |-> list]

\* Mutant: the generic status test runs first and hides 401 and 403.
_get_json_generic_first(resp) ==
    IF resp.status >= 400 THEN Raise("YandexIoTApiError")
    ELSE IF ~resp.json THEN Raise("YandexIoTApiError")
    ELSE Return(resp.body)

_get_json(resp) ==
    IF resp.status = 401 THEN Raise("YandexIoTAuthError")
    ELSE IF resp.status = 403 THEN Raise("YandexIoTPermissionError")
    ELSE IF resp.status >= 400 THEN Raise("YandexIoTApiError")
    ELSE IF ~resp.json THEN Raise("YandexIoTApiError")
    ELSE Return(resp.body)

\* YandexDevice(id, name, room, properties); room is not modelled.
YandexDevice(id, name, properties) ==
    [id |-> id, name |-> name, properties |-> properties]

get_device(device_id, resp) ==
    LET r == _get_json(resp) IN
    IF r.exc # "" THEN r
    ELSE IF r.val.status # "ok" THEN Raise("YandexIoTApiError")
    ELSE IF ~r.val.has_id THEN Raise("KeyError")
    ELSE Return(YandexDevice(
            r.val.id,
            IF r.val.name \in {NoneStr, ""} THEN device_id ELSE r.val.name,
            IF r.val.properties.present THEN r.val.properties.list ELSE <<>>))

\* A JSON list under a key: absent (or null), or present.
NoList == [present |-> FALSE, list |-> <<>>]
JsonList(l) == [present |-> TRUE, list |-> l]

\* x or []
OrEmpty(x) == IF x.present THEN x.list ELSE <<>>

\* Body of GET /user/info.  devices lists the "id" of each device object
\* (NoneStr: the object has no id); rooms lists each room's "devices" list.
UserInfoBody(status, devices, rooms) ==
    [status |-> status, devices |-> devices, rooms |-> rooms]

get_user_info(resp) ==
    LET r == _get_json(resp) IN
    IF r.exc # "" THEN r
    ELSE IF r.val.status # "ok" THEN Raise("YandexIoTApiError")
    ELSE r

\* if did: None and "" are skipped.
Truthy(id) == id \notin {NoneStr, ""}

RECURSIVE Filter(_)
Filter(ids) ==
    IF ids = <<>> THEN <<>>
    ELSE (IF Truthy(Head(ids)) THEN <<Head(ids)>> ELSE <<>>) \o Filter(Tail(ids))

RECURSIVE RoomIds(_)
RoomIds(rooms) ==
    IF rooms = <<>> THEN <<>>
    ELSE Filter(OrEmpty(Head(rooms))) \o RoomIds(Tail(rooms))

\* Mutant: the room groups are scanned before the flat list.
ScanIdsRoomsFirst(body) ==
    RoomIds(OrEmpty(body.rooms)) \o Filter(OrEmpty(body.devices))

\* The list ids before it is made unique: the flat list, then the rooms.
ScanIds(body) ==
    Filter(OrEmpty(body.devices)) \o RoomIds(OrEmpty(body.rooms))

\* unique, preserve order
RECURSIVE Unique(_, _)
Unique(ids, seen) ==
    IF ids = <<>> THEN <<>>
    ELSE IF Head(ids) \in seen THEN Unique(Tail(ids), seen)
    ELSE <<Head(ids)>> \o Unique(Tail(ids), seen \cup {Head(ids)})

list_device_ids(resp) ==
    LET r == get_user_info(resp) IN
    IF r.exc # "" THEN r ELSE Return(Unique(ScanIds(r.val), {}))

-----------------------------------------------------------------------------
(* coordinator.py: one poll cycle *)

\* A get_device task that has not finished.
Pending == [exc |-> "<pending>", val |-> NoneStr]

\* coordinator.data is None until the first successful refresh.
NoneData == [some |-> FALSE, map |-> [k \in {} |-> NoneStr]]
SomeData(m) == [some |-> TRUE, map |-> m]

\* out[dev.id] = {...} for the devices in order: a later one replaces an
\* earlier one of the same id.
RECURSIVE BuildOut(_, _, _)
BuildOut(devices, i, acc) ==
    IF i > Len(devices) THEN acc
    ELSE LET dev == devices[i]
             entry == [name |-> dev.name, properties |-> dev.properties]
         IN BuildOut(devices, i + 1,
                [k \in DOMAIN acc \cup {dev.id} |->
                    IF k = dev.id THEN entry ELSE acc[k]])

\* Mutant: best effort, a failed fetch is skipped and the rest is returned.
_async_update_data_partial(results) ==
    LET okIdx == {i \in DOMAIN results : results[i].exc = ""}
        RECURSIVE Pick(_)
        Pick(i) == IF i > Len(results) THEN <<>>
                   ELSE IF i \in okIdx THEN <<results[i].val>> \o Pick(i + 1)
                   ELSE Pick(i + 1)
    IN Return(BuildOut(Pick(1), 1, [k \in {} |-> NoneStr]))

\* results: what asyncio.gather saw of the tasks, in the order of device_ids.
\* gather raises as soon as one task has raised.
_async_update_data(results) ==
    IF \E i \in DOMAIN results : results[i].exc \notin {"", Pending.exc}
    THEN Raise("UpdateFailed")
    ELSE Return(BuildOut([i \in DOMAIN results |-> results[i].val], 1,
                         [k \in {} |-> NoneStr]))

-----------------------------------------------------------------------------
(* sensor.py: entity reads *)

\* A value an entity reports: None, a float with one decimal (n tenths), an
\* int (n units), a raw value passed through, or a UTC datetime (n seconds
\* after the epoch).
Native(t, n) == [t |-> t, n |-> n]
NoneNative == Native("none", 0)

\* Mutant: the entity is available as soon as any snapshot exists.
available_any_snapshot(d, device_id) == d.some

\* device_id in (coordinator.data or {})
available(d, device_id) == d.some /\ device_id \in DOMAIN d.map

\* (coordinator.data or {}).get(device_id, {}), then .get("properties") or []
_device_properties(d, device_id) ==
    IF d.some /\ device_id \in DOMAIN d.map THEN d.map[device_id].properties
    ELSE <<>>

\* Mutant: the last property of the instance wins.
_find_prop_last(properties, instance) ==
    LET hits == {i \in DOMAIN properties :
                    LET st == properties[i].state IN
                    st.present /\ st.instance = instance}
    IN IF hits = {} THEN 0 ELSE CHOOSE i \in hits : \A j \in hits : j <= i

\* Index of the property returned, 0 for None.  (p.get("state") or {}) has no
\* "instance" when the state is absent, and None equals no instance asked for.
_find_prop(properties, instance) ==
    LET hits == {i \in DOMAIN properties :
                    LET st == properties[i].state IN
                    st.present /\ st.instance = instance}
    IN IF hits = {} THEN 0 ELSE CHOOSE i \in hits : \A j \in hits : i <= j

\* float(val): numbers and booleans convert, a string converts when it is the
\* text of a number.
ToFloat(val) ==
    IF val.t \in {"num", "numstr", "bool"} THEN Return([h |-> val.h, e |-> val.e])
    ELSE Raise("ValueError")

\* Mutant: truncation toward minus infinity instead of rounding.
RoundFloor(x, unit) == x.h \div unit

\* round(x, ndigits) of a double: the multiple of unit/100 nearest to the
\* exact binary value, the even one on an exact tie.  unit is 10 for one
\* decimal and 100 for none; the result counts units.
Round(x, unit) ==
    LET q == x.h \div unit
        r == x.h % unit
    IN IF 2 * r < unit THEN q
       ELSE IF 2 * r > unit THEN q + 1
       ELSE IF x.e < 0 THEN q
       ELSE IF x.e > 0 THEN q + 1
       ELSE IF q % 2 = 0 THEN q ELSE q + 1

\* YandexClimateSensor.native_value over the device's property list.
SensorValue(properties, instance) ==
    LET i == _find_prop(properties, instance) IN
    IF i = 0 THEN Return(NoneNative)
    ELSE LET val == properties[i].state.value IN
         IF val.t = "none" THEN Return(NoneNative)
         ELSE IF instance \in {INST_TEMPERATURE, INST_HUMIDITY}
              THEN LET f == ToFloat(val) IN
                   IF f.exc # "" THEN f
                   ELSE Return(Native("float1", Round(f.val, 10)))
         ELSE IF instance = INST_CO2
              THEN LET f == ToFloat(val) IN
                   IF f.exc # "" THEN f
                   ELSE Return(Native("int", Round(f.val, 100)))
         ELSE Return(Native("raw", val.h))

\* isinstance(lu, (int, float)): bool is a subclass of int.
IsNumber(lu) == lu.t \in {"num", "bool"}

Max(S) == CHOOSE x \in S : \A y \in S : y <= x

\* Mutant: the field is read from the property's state object.
_last_updated_max_state(properties) ==
    LET vals == {properties[i].state.last_updated.v : i \in
                    {j \in DOMAIN properties :
                        properties[j].state.present
                        /\ IsNumber(properties[j].state.last_updated)}}
    IN IF vals = {} THEN NoneNative ELSE Native("float", Max(vals))

\* None, or the float max(vals).
_last_updated_max(properties) ==
    LET vals == {properties[i].last_updated.v : i \in
                    {j \in DOMAIN properties : IsNumber(properties[j].last_updated)}}
    IN IF vals = {} THEN NoneNative ELSE Native("float", Max(vals))

\* YandexClimateDerivedSensor.native_value for the kind "last_updated".
DerivedValue(properties) ==
    LET ts == _last_updated_max(properties) IN
    IF ts.t = "none" THEN Return(NoneNative)
    ELSE Return(Native("datetime", ts.n))

\* native_value of the entity e = [device_id, kind] against the snapshot d.
native_value(d, e) ==
    IF e.kind = "last_updated" THEN DerivedValue(_device_properties(d, e.device_id))
    ELSE SensorValue(_device_properties(d, e.device_id), e.kind)

\* sensor.async_setup_entry: the entities built for the entry.
SensorEntities(ids, enable) ==
    {[device_id |-> ids[i], kind |-> k] :
        i \in DOMAIN ids, k \in {INST_TEMPERATURE, INST_HUMIDITY, INST_CO2}}
    \cup (IF enable
          THEN {[device_id |-> ids[i], kind |-> "last_updated"] : i \in DOMAIN ids}
          ELSE {})

-----------------------------------------------------------------------------
(* config_flow.py: onboarding *)

\* The instance tags collected from the properties.
Instances(props) ==
    {props[i].state.instance : i \in
        {j \in DOMAIN props :
            props[j].state.present /\ Truthy(props[j].state.instance)}}

\* Mutant: one required instance is enough.
_is_climate_module_any(device) ==
    CLIMATE_INSTANCES \cap Instances(OrEmpty(device.properties)) # {}

\* device: a dict whose "properties" may be missing or null.
_is_climate_module(device) ==
    CLIMATE_INSTANCES \subseteq Instances(OrEmpty(device.properties))

\* except clauses of async_step_user, in their order; the two specific
\* classes derive from YandexIoTApiError.
IsApiError(exc) ==
    exc \in {"YandexIoTApiError", "YandexIoTAuthError", "YandexIoTPermissionError"}

ErrorKey(exc) ==
    IF exc = "YandexIoTAuthError" THEN "auth_401"
    ELSE IF exc = "YandexIoTPermissionError" THEN "auth_403"
    ELSE IF IsApiError(exc) THEN "api_error"
    ELSE "unknown"

\* One request the flow made, the status it got and whether the body parsed.
Call(path, id, resp) ==
    [path |-> path, id |-> id, status |-> resp.status, json |-> resp.json]

\* The flow: the step shown or the await async_step_user is at, errors["base"],
\* the requests made since the last submission, the token, the device ids
\* still to fetch, the devices fetched, the climate modules found and the
\* device ids of the entry created.
FlowState(step, errors, calls, token, ids, devices, climate, entry) ==
    [step |-> step, errors |-> errors, calls |-> calls, token |-> token,
     ids |-> ids, devices |-> devices, climate |-> climate, entry |-> entry]

\* The form of the first step, nothing submitted yet.
FlowStart == FlowState("user", "", <<>>, <<>>, <<>>, <<>>, <<>>, <<>>)

\* The form of the first step shown again with an error.
FlowError(f, key, calls) == FlowState("user", key, calls, <<>>, <<>>, <<>>, <<>>, <<>>)

\* climate = [d for d in devices if _is_climate_module(d)], as the ids the
\* payloads carry.
RECURSIVE ClimateOf(_)
ClimateOf(devices) ==
    IF devices = <<>> THEN <<>>
    ELSE (IF _is_climate_module([properties |-> JsonList(Head(devices).properties)])
          THEN <<Head(devices).id>> ELSE <<>>) \o ClimateOf(Tail(devices))

\* async_step_user after its loop over the device ids.
AfterDevices(f, calls, devices) ==
    LET climate == ClimateOf(devices) IN
    IF climate = <<>> THEN FlowError(f, "no_modules_found", calls)
    ELSE FlowState("select_modules", "", calls, f.token, <<>>, devices, climate, <<>>)

\* async_step_user from the submission to its first await: the token is
\* stripped as _normalize_token does and validate_token is called.
async_step_user_begin(token) ==
    FlowState("validate_token", "", <<>>, _normalize_token(token),
              <<>>, <<>>, <<>>, <<>>)

\* async_step_user when GET /user/info answers resp to validate_token,
\* get_user_info or list_device_ids, whichever f.step says is awaited.
async_step_user_info(f, resp) ==
    LET calls == Append(f.calls, Call("/user/info", "", resp))
        r == IF f.step = "list_device_ids" THEN list_device_ids(resp)
             ELSE get_user_info(resp)
    IN IF r.exc # "" THEN FlowError(f, ErrorKey(r.exc), calls)
       ELSE IF f.step = "validate_token"
       THEN [f EXCEPT !.step = "get_user_info", !.calls = calls]
       ELSE IF f.step = "get_user_info"
       THEN [f EXCEPT !.step = "list_device_ids", !.calls = calls]
       ELSE IF r.val = <<>> THEN AfterDevices(f, calls, <<>>)
       ELSE [f EXCEPT !.step = "get_device", !.calls = calls, !.ids = r.val]

\* async_step_user when GET /devices/{id} answers resp for the first id left:
\* a fetch that raises is logged and the device left out.
async_step_user_device(f, resp) ==
    LET did == Head(f.ids)
        calls == Append(f.calls, Call("/devices", did, resp))
        d == get_device(did, resp)
        devices == IF d.exc = "" THEN Append(f.devices, d.val) ELSE f.devices
    IN IF Tail(f.ids) = <<>> THEN AfterDevices(f, calls, devices)
       ELSE [f EXCEPT !.calls = calls, !.ids = Tail(f.ids), !.devices = devices]

\* async_step_select_modules with a selection submitted.
async_step_select_modules(f, selected) ==
    IF f.climate = <<>> THEN [f EXCEPT !.step = "abort", !.errors = "no_modules_found"]
    ELSE IF selected = <<>> THEN [f EXCEPT !.errors = "select_at_least_one"]
    ELSE [f EXCEPT !.step = "create_entry", !.errors = "", !.entry = selected]

-----------------------------------------------------------------------------
(* The polling pipeline: __init__.async_setup_entry, the coordinator's       *)
(* refresh and the platform's entities.                                      *)

MaxDevices == 3

AllIds == <<"a", "b", "c", "d", "e">>
ForeignId == "zz"

PropsA == <<Reading(INST_TEMPERATURE, Num(2136, -1), 100),
            Reading(INST_HUMIDITY, Num(5504, -1), 250),
            Reading(INST_CO2, Num(81260, 1), 80)>>
PropsB == <<Reading(INST_TEMPERATURE, Num(-25, 0), 300),
            Reading(INST_HUMIDITY, NoneVal, 300)>>

\* What GET /devices/{device_id} may answer.
PollResponses(device_id) ==
    {Resp(200, TRUE, DeviceBody("ok", TRUE, device_id, "Module", Props(PropsA))),
     Resp(200, TRUE, DeviceBody("ok", TRUE, device_id, NoneStr, NoProps)),
     Resp(200, TRUE, DeviceBody("ok", TRUE, ForeignId, "Module", Props(PropsB))),
     Resp(200, TRUE, DeviceBody("ok", FALSE, NoneStr, "Module", Props(PropsA))),
     Resp(200, TRUE, DeviceBody("error", FALSE, NoneStr, NoneStr, NoProps)),
     Resp(200, FALSE, NoneStr),
     Resp(401, FALSE, NoneStr),
     Resp(500, TRUE, DeviceBody("error", FALSE, NoneStr, NoneStr, NoProps))}

\* The harness of the pure functions: nothing applied.
NotApplied == [done |-> FALSE, r |-> NoneStr]
Applied(r) == [done |-> TRUE, r |-> r]

PureIdle == fn = "" /\ inp = NoneStr /\ out = NotApplied

Init ==
    /\ device_ids \in {SubSeq(AllIds, 1, n) : n \in 0..MaxDevices}
    /\ enable_last \in BOOLEAN
    /\ data = NoneData
    /\ last_update_success = TRUE
    /\ pc = "idle"
    /\ slots = <<>>
    /\ setup = "unloaded"
    /\ latest_ids = {}
    /\ entities = {}
    /\ flow = FlowStart
    /\ PureIdle

\* The tasks of one cycle are created: one get_device per configured id.
StartFetch ==
    /\ pc' = "fetching"
    /\ slots' = [i \in DOMAIN device_ids |-> Pending]

\* async_setup_entry up to its first await: a new coordinator starts its
\* first refresh.  The platform retries a setup that was not ready.
AsyncSetupEntry ==
    /\ setup \in {"unloaded", "not_ready"}
    /\ pc = "idle"
    /\ setup' = "first_refresh"
    /\ data' = NoneData
    /\ last_update_success' = TRUE
    /\ latest_ids' = {}
    /\ StartFetch
    /\ UNCHANGED <<device_ids, enable_last, entities, flowVars, pureVars>>

\* The timer of a loaded entry starts the next cycle.
Tick ==
    /\ setup = "loaded"
    /\ pc = "idle"
    /\ StartFetch
    /\ UNCHANGED <<device_ids, enable_last, data, last_update_success, setup,
                   latest_ids, entities, flowVars, pureVars>>

\* One get_device task finishes with the answer of the remote.
GetDeviceDone ==
    /\ pc = "fetching"
    /\ \E i \in DOMAIN slots :
        /\ slots[i] = Pending
        /\ \E resp \in PollResponses(device_ids[i]) :
              slots' = [slots EXCEPT ![i] = get_device(device_ids[i], resp)]
    /\ UNCHANGED <<device_ids, enable_last, data, last_update_success, pc, setup,
                   latest_ids, entities, flowVars, pureVars>>

\* asyncio.gather is over: every task returned, or one raised.
GatherOver ==
    \/ \A i \in DOMAIN slots : slots[i] # Pending
    \/ \E i \in DOMAIN slots : slots[i].exc \notin {"", Pending.exc}

\* Mutant: the platform is forwarded whatever the first refresh gave.
FirstRefreshIgnored(ok) == "loaded"

\* async_setup_entry after async_config_entry_first_refresh: the refresh
\* raises ConfigEntryNotReady unless it succeeded, and only then the next
\* line forwards the entry to the sensor platform.
AfterFirstRefresh(ok) == IF ok THEN "loaded" ELSE "not_ready"

\* The cycle ends.  Home Assistant's DataUpdateCoordinator, the base class,
\* assigns the dict _async_update_data returns to data; when UpdateFailed is
\* raised it leaves data alone and clears last_update_success.
RefreshDone ==
    /\ pc = "fetching"
    /\ GatherOver
    /\ LET r == _async_update_data(slots)
           ok == r.exc = ""
       IN /\ data' = IF ok THEN SomeData(r.val) ELSE data
          /\ last_update_success' = ok
          /\ latest_ids' = IF ok
                           THEN {slots[i].val.id :
                                    i \in {j \in DOMAIN slots : slots[j].exc = ""}}
                           ELSE latest_ids
          /\ IF setup = "first_refresh"
             THEN /\ setup' = AfterFirstRefresh(ok)
                  /\ entities' = IF setup' = "loaded"
                                 THEN SensorEntities(device_ids, enable_last)
                                 ELSE entities
             ELSE UNCHANGED <<setup, entities>>
    /\ pc' = "idle"
    /\ UNCHANGED <<device_ids, enable_last, slots, flowVars, pureVars>>

\* _async_options_updated: the entry is reloaded; async_unload_entry removes
\* the platform's entities and the coordinator.
OptionsUpdated ==
    /\ setup = "loaded"
    /\ pc = "idle"
    /\ enable_last' \in BOOLEAN
    /\ entities' = {}
    /\ setup' = "unloaded"
    /\ data' = NoneData
    /\ last_update_success' = TRUE
    /\ latest_ids' = {}
    /\ UNCHANGED <<device_ids, pc, slots, flowVars, pureVars>>

Next ==
    \/ AsyncSetupEntry
    \/ Tick
    \/ GetDeviceDone
    \/ RefreshDone
    \/ OptionsUpdated

Spec == Init /\ [][Next]_vars

-----------------------------------------------------------------------------
(* Claims about the polling pipeline, checked under Spec *)

Raised(r) == r.exc \notin {"", Pending.exc}

\* The entry a cycle's results give the device id k: that of the last task,
\* in the order of device_ids, whose device carries the id k.
EntryOf(results, k) ==
    LET i == Max({j \in DOMAIN results : results[j].val.id = k})
    IN [name |-> results[i].val.name, properties |-> results[i].val.properties]

\* C1: a poll cycle in which at least one fetch raised ends as a failure and
\* leaves the snapshot exactly as it was; a cycle in which every fetch
\* succeeded replaces the snapshot by one whose keys and entries are those of
\* this cycle's devices only.
C1_AllOrNothing ==
    [][(pc = "fetching" /\ pc' = "idle") =>
        IF \E i \in DOMAIN slots : Raised(slots[i])
        THEN data' = data /\ ~last_update_success'
        ELSE /\ last_update_success'
             /\ data'.some
             /\ DOMAIN data'.map = {slots[i].val.id : i \in DOMAIN slots}
             /\ \A k \in DOMAIN data'.map : data'.map[k] = EntryOf(slots, k)]_vars

\* Three devices, the second fetch failed, the first and third succeeded, and
\* the snapshot of an earlier cycle is still there.
C1_Witness ==
    /\ pc = "idle"
    /\ ~last_update_success
    /\ Len(slots) = 3
    /\ slots[1].exc = "" /\ Raised(slots[2]) /\ slots[3].exc = ""
    /\ data.some /\ DOMAIN data.map # {}
    /\ \E k \in DOMAIN data.map : data.map[k].properties # slots[1].val.properties

\* C2: the platform is forwarded, and entities exist, only once a first
\* refresh has populated the snapshot; a failed first refresh leaves the
\* setup not ready with no entity and no snapshot.
C2_FirstRefreshFatal ==
    /\ setup = "loaded" => data.some
    /\ entities # {} => data.some
    /\ setup \in {"first_refresh", "not_ready"} => entities = {}
    /\ setup = "not_ready" => ~last_update_success /\ ~data.some

\* The first refresh failed for a configured device: setup raised.
C2_Witness ==
    /\ setup = "not_ready"
    /\ pc = "idle"
    /\ \E i \in DOMAIN slots : Raised(slots[i])
    /\ entities = {}
    /\ ~data.some

\* Every entity the platform can build for the configured devices.
AllEntities == SensorEntities(device_ids, TRUE)

\* C3: an entity is available iff its device id was answered by the last
\* successful cycle (no id before the first one), and an entity whose device
\* id is not in the snapshot reads None without raising.
C3_Availability ==
    \A e \in AllEntities :
        /\ available(data, e.device_id) <=> e.device_id \in latest_ids
        /\ e.device_id \notin latest_ids => native_value(data, e) = Return(NoneNative)

\* After a failed cycle, with a snapshot that holds one configured device and
\* lacks another.
C3_Witness ==
    /\ pc = "idle"
    /\ ~last_update_success
    /\ data.some
    /\ \E e1, e2 \in entities :
          /\ available(data, e1.device_id)
          /\ ~available(data, e2.device_id)
          /\ native_value(data, e1) # Return(NoneNative)

\* C11: once a poll cycle has succeeded, the keys of the snapshot are the
\* configured device ids and every entity of a configured device is
\* available, whatever id the payloads carried.
C11_KeysAreConfiguredIds ==
    (pc = "idle" /\ last_update_success /\ data.some) =>
        /\ DOMAIN data.map = {device_ids[i] : i \in DOMAIN device_ids}
        /\ \A e \in AllEntities : available(data, e.device_id)

-----------------------------------------------------------------------------
(* The onboarding flow as a state machine *)

PollIdle ==
    /\ device_ids = <<>>
    /\ enable_last = TRUE
    /\ data = NoneData
    /\ last_update_success = TRUE
    /\ pc = "idle"
    /\ slots = <<>>
    /\ setup = "unloaded"
    /\ latest_ids = {}
    /\ entities = {}

MaxListed == 2

InfoA == UserInfoBody("ok", JsonList(SubSeq(AllIds, 1, MaxListed)), NoList)
InfoB == UserInfoBody("ok", NoList, JsonList(<<JsonList(<<"a", "">>), NoList>>))
InfoC == UserInfoBody("ok", JsonList(<<"b", NoneStr>>), JsonList(<<JsonList(<<"b", "a">>)>>))
InfoErr == UserInfoBody("error", NoList, NoList)

\* What GET /user/info may answer.
UserInfoResponses ==
    {Resp(200, TRUE, InfoA), Resp(200, TRUE, InfoB), Resp(200, TRUE, InfoC),
     Resp(200, TRUE, InfoErr),
     Resp(200, FALSE, NoneStr),
     Resp(401, TRUE, InfoA), Resp(401, FALSE, NoneStr),
     Resp(403, TRUE, InfoA), Resp(403, FALSE, NoneStr),
     Resp(404, FALSE, NoneStr), Resp(500, TRUE, InfoErr), Resp(500, FALSE, NoneStr)}

\* What GET /devices/{device_id} may answer during onboarding.
FlowDeviceResponses(device_id) ==
    {Resp(200, TRUE, DeviceBody("ok", TRUE, device_id, "Module", Props(PropsA))),
     Resp(200, TRUE, DeviceBody("ok", TRUE, device_id, "Lamp", Props(PropsB))),
     Resp(401, FALSE, NoneStr),
     Resp(403, FALSE, NoneStr)}

\* Tokens the user may paste: "x", "Bearer x" and " x" with a tab after it.
FlowTokens ==
    {<<"x">>, <<"B", "e", "a", "r", "e", "r", " ", "x">>, <<" ", "x", "\t">>,
     <<"y">>}

InitFlow ==
    /\ PollIdle
    /\ flow = FlowStart
    /\ PureIdle

\* The user submits a token in the first step.
AsyncStepUser ==
    /\ flow.step = "user"
    /\ \E token \in FlowTokens : flow' = async_step_user_begin(token)
    /\ UNCHANGED <<pollVars, pureVars>>

\* GET /user/info answers.
UserInfoAnswered ==
    /\ flow.step \in {"validate_token", "get_user_info", "list_device_ids"}
    /\ \E resp \in UserInfoResponses : flow' = async_step_user_info(flow, resp)
    /\ UNCHANGED <<pollVars, pureVars>>

\* GET /devices/{id} answers.
DeviceAnswered ==
    /\ flow.step = "get_device"
    /\ \E resp \in FlowDeviceResponses(Head(flow.ids)) :
          flow' = async_step_user_device(flow, resp)
    /\ UNCHANGED <<pollVars, pureVars>>

\* The user submits a selection in the second step.
AsyncStepSelectModules ==
    /\ flow.step = "select_modules"
    /\ \E selected \in {<<>>} \cup {SubSeq(flow.climate, 1, n) : n \in 1..Len(flow.climate)}
                       \cup {SubSeq(flow.climate, n, n) : n \in 1..Len(flow.climate)} :
          flow' = async_step_select_modules(flow, selected)
    /\ UNCHANGED <<pollVars, pureVars>>

\* A new flow is opened after one ended.
NewFlow ==
    /\ flow.step \in {"create_entry", "abort"}
    /\ flow' = FlowStart
    /\ UNCHANGED <<pollVars, pureVars>>

NextFlow ==
    \/ AsyncStepUser
    \/ UserInfoAnswered
    \/ DeviceAnswered
    \/ AsyncStepSelectModules
    \/ NewFlow

SpecFlow == InitFlow /\ [][NextFlow]_vars

\* C4: whenever the flow got 401 from /user/info it shows auth_401, 403 gives
\* auth_403 and any other status of 400 or more gives api_error, whether or
\* not the body of that response parses.
C4_StatusKinds ==
    \A i \in DOMAIN flow.calls :
        flow.calls[i].path = "/user/info" =>
            /\ flow.calls[i].status = 401 => flow.errors = "auth_401"
            /\ flow.calls[i].status = 403 => flow.errors = "auth_403"
            /\ (flow.calls[i].status >= 400 /\ flow.calls[i].status \notin {401, 403})
                  => flow.errors = "api_error"

\* The third /user/info request of a submission was answered 403 with a body
\* that is no JSON, after two good answers, and the form shows auth_403.
C4_Witness ==
    /\ Len(flow.calls) = 3
    /\ flow.calls[1].status = 200 /\ flow.calls[2].status = 200
    /\ flow.calls[3].status = 403 /\ ~flow.calls[3].json
    /\ flow.step = "user"
    /\ flow.errors = "auth_403"

-----------------------------------------------------------------------------
(* The pure functions, each applied to inputs drawn from a bounded set *)

\* All sequences over S of length at most n.
SeqsUpTo(S, n) == UNION {[1..k -> S] : k \in 0..n}

RECURSIVE Concat(_)
Concat(strs) == IF strs = <<>> THEN <<>> ELSE Head(strs) \o Concat(Tail(strs))

InitPure(name, inputs) ==
    /\ PollIdle
    /\ flow = FlowStart
    /\ fn = name
    /\ inp \in inputs
    /\ out = NotApplied

\* The harness applies the function named fn once to inp.
Apply(name, result) ==
    /\ fn = name
    /\ ~out.done
    /\ out' = Applied(result)
    /\ UNCHANGED <<pollVars, flowVars, fn, inp>>

(* YandexIoTClient.__init__: the credential is stored normalized *)

MaxChunks == 3

\* Pieces a pasted token is made of.
Chunks ==
    {<<"B", "e", "a", "r", "e", "r", " ">>,
     <<"b", "E", "A", "R", "E", "R", " ">>,
     <<"B", "e", "a", "r", "e", "r">>,
     <<" ">>, <<"\t">>, <<"x">>}

Tokens == {Concat(cs) : cs \in SeqsUpTo(Chunks, MaxChunks)}

InitNormalize == InitPure("_normalize_token", Tokens)

\* A client is constructed with the token inp; out.r is its _token.
NewClient == Apply("_normalize_token", _normalize_token(inp))

NextNormalize == NewClient

SpecNormalize == InitNormalize /\ [][NextNormalize]_vars

\* C6: the stored credential is a fixed point of the normalization: it has no
\* leading or trailing whitespace and does not begin with "bearer " in any
\* letter case.
C6_Idempotent ==
    (fn = "_normalize_token" /\ out.done) =>
        /\ _normalize_token(out.r) = out.r
        /\ Strip(out.r) = out.r
        /\ ~StartsWith(Lower(out.r), BearerPrefix)

(* list_device_ids over the payloads of GET /user/info *)

MaxIds == 2
MaxRooms == 2

\* Ids a payload may carry; "" is an empty id.
PayloadIds == {"a", "b", "c", ""}

\* The flat "devices" key: missing, or a list of device objects, given by
\* their ids (NoneStr: the object has no "id").
FlatLists ==
    {NoList, JsonList(<<NoneStr, "a">>)}
    \cup {JsonList(l) : l \in SeqsUpTo(PayloadIds, MaxIds)}

\* The "devices" key of a room: missing, or a list of ids.
RoomLists ==
    {NoList, JsonList(<<"b", "c">>), JsonList(<<"", "a">>),
     JsonList(<<"c", "b", "c">>), JsonList(<<"d">>)}

\* The bodies GET /user/info answers with status "ok".
UserInfoBodies ==
    {UserInfoBody("ok", devices, rooms) :
        devices \in FlatLists,
        rooms \in {NoList} \cup {JsonList(rs) : rs \in SeqsUpTo(RoomLists, MaxRooms)}}

InitList == InitPure("list_device_ids", UserInfoBodies)

ListDeviceIds == Apply("list_device_ids", list_device_ids(Resp(200, TRUE, inp)))

NextList == ListDeviceIds

SpecList == InitList /\ [][NextList]_vars

\* The ids of a payload in scan order, empty and missing ones included.
RECURSIVE RoomIdsRaw(_)
RoomIdsRaw(rooms) ==
    IF rooms = <<>> THEN <<>>
    ELSE OrEmpty(Head(rooms)) \o RoomIdsRaw(Tail(rooms))

RawIds(body) == OrEmpty(body.devices) \o RoomIdsRaw(OrEmpty(body.rooms))

\* Position of the first occurrence of id in the sequence ids.
FirstAt(ids, id) == CHOOSE i \in DOMAIN ids : ids[i] = id /\ \A j \in 1..(i - 1) : ids[j] # id

Range(f) == {f[i] : i \in DOMAIN f}

\* C7: list_device_ids returns exactly the non-empty ids of the flat list and
\* of the rooms' lists, each once, in the order of their first occurrence
\* with the flat list scanned before the rooms.
C7_FirstSeenOrder ==
    (fn = "list_device_ids" /\ out.done) =>
        LET raw == RawIds(inp)
            res == out.r.val
        IN /\ out.r.exc = ""
           /\ Range(res) = {id \in Range(raw) : id \notin {"", NoneStr}}
           /\ \A i, j \in DOMAIN res : i < j =>
                 /\ res[i] # res[j]
                 /\ FirstAt(raw, res[i]) < FirstAt(raw, res[j])

\* Flat list [a, b], one room [b, c]: the result is [a, b, c].
C7_Witness ==
    /\ fn = "list_device_ids" /\ out.done
    /\ inp.devices = JsonList(<<"a", "b">>)
    /\ inp.rooms = JsonList(<<JsonList(<<"b", "c">>)>>)
    /\ out.r = Return(<<"a", "b", "c">>)

(* _is_climate_module over device dicts *)

MaxClassifyProps == 4

\* A property carrying the instance tag in its state and nothing else.
Tagged(instance) == Prop(TRUE, instance, NoneVal, NoneLu, NoneLu)

\* A property without a state object.
Stateless == Prop(FALSE, NoneStr, NoneVal, NoneLu, NoneLu)

ClassifyProps ==
    {Tagged(i) : i \in CLIMATE_INSTANCES \cup {"battery_level", "", NoneStr}}
    \cup {Stateless}

Devices ==
    {[properties |-> NoList]}
    \cup {[properties |-> JsonList(l)] : l \in SeqsUpTo(ClassifyProps, MaxClassifyProps)}

InitClassify == InitPure("_is_climate_module", Devices)

IsClimateModule == Apply("_is_climate_module", _is_climate_module(inp))

NextClassify == IsClimateModule

SpecClassify == InitClassify /\ [][NextClassify]_vars

\* C5: a device is a climate module iff each of temperature, humidity and
\* co2_level is the instance tag of one of its properties; without a
\* properties list, or with an empty one, it is none.
C5_ClimateIffSuperset ==
    (fn = "_is_climate_module" /\ out.done) =>
        LET props == IF inp.properties.present THEN inp.properties.list ELSE <<>>
        IN /\ out.r <=> \A required \in {"temperature", "humidity", "co2_level"} :
                          \E i \in DOMAIN props :
                              /\ props[i].state.present
                              /\ props[i].state.instance = required
           /\ props = <<>> => ~out.r

\* The three required instances and one more, in some order: accepted.
C5_Witness ==
    /\ fn = "_is_climate_module" /\ out.done
    /\ inp.properties.present
    /\ Len(inp.properties.list) = 4
    /\ inp.properties.list[1] = Tagged("battery_level")
    /\ out.r

(* YandexClimateSensor.native_value: rounding *)

MaxRaw == 160

\* Raw values: the doubles nearest to the hundredths of -MaxRaw..MaxRaw, and
\* 21.36, 55.04, 812.5, 812.6 and 813.5.
RawNumbers ==
    {Num(h, e) : h \in (-MaxRaw..MaxRaw) \cup {2136, 5504, 81250, 81260, 81350},
                 e \in {-1, 0, 1}}

RoundInputs ==
    {[instance |-> i, value |-> v] :
        i \in CLIMATE_INSTANCES,
        v \in {x \in RawNumbers : IsDouble(x.h, x.e)}}

InitRound == InitPure("round", RoundInputs)

\* The entity of inp.instance reads a device whose only property carries
\* inp.value.
ReadRaw ==
    Apply("round", SensorValue(<<Reading(inp.instance, inp.value, 0)>>, inp.instance))

NextRound == ReadRaw

SpecRound == InitRound /\ [][NextRound]_vars

\* n counts the multiple of unit/100 nearest to the double x, the even one
\* when x is exactly half-way between two.
NearestHalfEven(x, unit, n) ==
    /\ 2 * (x.h - unit * n) <= unit
    /\ 2 * (unit * n - x.h) <= unit
    /\ 2 * (x.h - unit * n) = unit => (x.e < 0 \/ (x.e = 0 /\ n % 2 = 0))
    /\ 2 * (unit * n - x.h) = unit => (x.e > 0 \/ (x.e = 0 /\ n % 2 = 0))

\* C8: a numeric raw value is reported rounded to the nearest tenth by a
\* temperature or humidity entity and to the nearest whole number, as an
\* int, by a co2_level entity; an exact tie goes to the even neighbour.
C8_Rounding ==
    (fn = "round" /\ out.done) =>
        /\ out.r.exc = ""
        /\ IF inp.instance = "co2_level"
           THEN out.r.val.t = "int" /\ NearestHalfEven(inp.value, 100, out.r.val.n)
           ELSE out.r.val.t = "float1" /\ NearestHalfEven(inp.value, 10, out.r.val.n)

\* 812.5 is a tie and a co2_level entity reports 812.
C8_Witness ==
    /\ fn = "round" /\ out.done
    /\ inp = [instance |-> "co2_level", value |-> Num(81250, 0)]
    /\ out.r = Return(Native("int", 812))

(* YandexClimateSensor.native_value: lookup *)

MaxProps == 3

\* A property of the instance carrying the value, no timestamps.
Valued(instance, value) == Prop(TRUE, instance, value, NoneLu, NoneLu)

LookupProps ==
    {Valued(i, v) : i \in {"temperature", "humidity"},
                    v \in {NoneVal, Num(0, 0), Num(2136, -1), Val("str", 0, 0)}}
    \cup {Valued(NoneStr, Num(0, 0)), Stateless}

LookupInputs ==
    {[instance |-> i, properties |-> l] :
        i \in {"temperature", "humidity"}, l \in SeqsUpTo(LookupProps, MaxProps)}

InitLookup == InitPure("native_value", LookupInputs)

\* The entity of inp.instance reads a device with the properties inp.properties.
ReadSensor == Apply("native_value", SensorValue(inp.properties, inp.instance))

NextLookup == ReadSensor

SpecLookup == InitLookup /\ [][NextLookup]_vars

\* The properties of the instance, by position.
Matches(props, instance) ==
    {i \in DOMAIN props : props[i].state.present /\ props[i].state.instance = instance}

\* C10: the entity reads the first property of its instance, whatever follows
\* it; it reports None iff there is none or that one has no value, and
\* a raw 0 is reported as 0.0.
C10_FirstMatch ==
    (fn = "native_value" /\ out.done) =>
        LET m == Matches(inp.properties, inp.instance) IN
        IF m = {} THEN out.r = Return(NoneNative)
        ELSE LET first == CHOOSE i \in m : \A j \in m : i <= j
                 val == inp.properties[first].state.value
             IN /\ out.r = Return(NoneNative) <=> val.t = "none"
                /\ val = Num(0, 0) => out.r = Return(Native("float1", 0))
                /\ val = Num(2136, -1) => out.r = Return(Native("float1", 214))
                /\ val.t = "str" => out.r.exc = "ValueError"

\* The first temperature property carries 0 and a later one 21.36: 0.0 is
\* reported.
C10_Witness ==
    /\ fn = "native_value" /\ out.done
    /\ inp.instance = "temperature"
    /\ inp.properties = <<Stateless, Valued("temperature", Num(0, 0)),
                          Valued("temperature", Num(2136, -1))>>
    /\ out.r = Return(Native("float1", 0))

(* YandexClimateDerivedSensor.native_value *)

\* A temperature property with last_updated lu on the property and state_lu
\* inside its state.
Stamped(state_lu, lu) == Prop(TRUE, "temperature", Num(0, 0), state_lu, lu)

StampedProps ==
    {Stamped(sl, l) :
        sl \in {NoneLu, Lu("num", 250)},
        l \in {NoneLu, Lu("num", 80), Lu("num", 100), Lu("num", 250),
               Lu("str", 0), Lu("bool", 1)}}
    \cup {Prop(FALSE, NoneStr, NoneVal, NoneLu, Lu("num", 100))}

InitDerived == InitPure("last_updated", SeqsUpTo(StampedProps, MaxProps))

\* The last_updated entity reads a device with the properties inp.
ReadDerived == Apply("last_updated", DerivedValue(inp))

NextDerived == ReadDerived

SpecDerived == InitDerived /\ [][NextDerived]_vars

\* The numeric last_updated values the properties carry inside their state,
\* where the data model of the specification puts them.
StateStamps(props) ==
    {props[i].state.last_updated.v : i \in
        {j \in DOMAIN props : props[j].state.present
                              /\ props[j].state.last_updated.t = "num"}}

\* The numeric last_updated values the properties carry themselves; a JSON
\* boolean counts as the number 1 or 0.
PropertyStamps(props) ==
    {props[i].last_updated.v : i \in
        {j \in DOMAIN props : props[j].last_updated.t \in {"num", "bool"}}}

====
